---- MODULE Spec2Model ----
(***************************************************************************)
(* A state-machine model of the Explorer agent of introlix-app:            *)
(*   src/introlix/agents/explorer_agent.py  (ExplorerAgent.run,            *)
(*     get_and_save_data, process_query, save_records, _crawl_and_chunk,   *)
(*     is_url_exists)                                                      *)
(*   src/introlix/agents/baseclass.py, base_agent.py (the summarising LLM  *)
(*     agent whose result run() reads)                                     *)
(*                                                                         *)
(* One ExplorerAgent instance performs one top-level run().  run() is a    *)
(* recursive coroutine: a level awaits its child, so the call chain is a   *)
(* sequence of levels of which only the last one entered and not yet       *)
(* returned is active.  The records of the levels are kept after they      *)
(* return, so that the properties can speak about what every level did.    *)
(* Inside get_and_save_data the process_query coroutines of one batch and  *)
(* the crawl tasks of each of them run concurrently on the event loop; an  *)
(* action is the code between two awaits.                                  *)
(*                                                                         *)
(* Scores and similarities are in hundredths (0.50 is 50).                 *)
(***************************************************************************)
EXTENDS Integers, Sequences, FiniteSets, TLC

(***************************************************************************)
(* Bounds of the model.                                                    *)
(***************************************************************************)
\* longest query list given to the constructor
MaxQueries == 2
\* largest max_retries passed to the top-level run
MaxRetriesBound == 1
\* the largest number of URLs one web search leads to in the fan-out
MaxUrls == 31
\* the longest list the SearXNG response, or the filter agent, gives
MaxRaw == 3
\* the most seconds the event loop ends a sleep late
MaxLate == 1

(***************************************************************************)
(* The environment: workspaces, query texts, the web and the two embedders.*)
(***************************************************************************)
Workspaces == {"w1", "w2"}
QueryTexts == {"q1", "q2"}
Urls == {"u1", "u2"}

\* hashlib.md5(url.encode()).hexdigest(): distinct URLs, distinct digests
Md5(url) == IF url = "u1" THEN "h1" ELSE "h2"

\* What SearXNG answers for a query text when the search succeeds
\* (search() then cuts the list to max_results).  q1 and q2 share u1, and
\* q2's results name u1 twice.
WebResults(text) ==
  IF text = "q1" THEN <<"u1", "u2", "u1">> ELSE <<"u1", "u1", "u2">>

\* The chunks TextChunker.chunk_text makes of the page at a URL; chunk_id is
\* the position minus one.
Page(url) == IF url = "u1" THEN <<"a", "b">> ELSE <<"c">>

Title(url) == IF url = "u1" THEN "T1" ELSE "T2"
Description(url) == IF url = "u1" THEN "D1" ELSE "D2"

\* embedding_model.similarity(query, chunk) at ingest time
Similarity(text, chunk) ==
  IF text = "q1"
  THEN (IF chunk = "a" THEN 60 ELSE IF chunk = "b" THEN 20 ELSE 40)
  ELSE (IF chunk = "a" THEN 10 ELSE IF chunk = "b" THEN 30 ELSE 34)

\* the _score the index reports for a stored chunk and a query text
IndexScore(text, chunk) ==
  IF text = "q1"
  THEN (IF chunk = "a" THEN 80 ELSE IF chunk = "b" THEN 30 ELSE 40)
  ELSE (IF chunk = "a" THEN 20 ELSE IF chunk = "b" THEN 45 ELSE 55)

(***************************************************************************)
(* Program constants.                                                      *)
(***************************************************************************)
\* "top_k": 3 of the index search in run
TopK == 3
\* BATCH_SIZE of save_records
BATCH_SIZE == 96
\* QUERY_BATCH_SIZE of get_and_save_data
QUERY_BATCH_SIZE == 5
\* similarity_threshold = 0.35 of _crawl_and_chunk
similarity_threshold == 35
\* max_results as the callers of the agent set it (edit_agent.py)
max_results == 2
\* RETRIEVE_SCORE_THRESHOLD of the specification (0.50); the code has none
RETRIEVE_SCORE_THRESHOLD == 50
\* SearXNGClient: min_delay_between_requests, the request timeout, the
\* attempts of one search, all in seconds or counts
min_delay == 5
HTTP_TIMEOUT == 30
search_max_retries == 3
\* the cap the specification puts on the crawls of one query in progress
MAX_CONCURRENT_URLS == 30

\* The namespace a Pinecone call without a namespace argument works on, and
\* the one run and save_records name.
DefaultNamespace == ""
SearchNamespace == "Search"
Namespaces == {DefaultNamespace, SearchNamespace}

\* summaries of the summarising agent, and of the two sentinels of run
NoDataFound == "No Data Found"
NoValidData == "No valid data found after retries"
EmptySummary == ""
GoodSummary == "summary"

VARIABLES
  cfg,       \* the constructor's and the top-level run's arguments
  store,     \* the Pinecone index: namespace -> set of records
  store0,    \* the index as it was when the run started
  lv,        \* the levels of run entered so far, outermost first
  cur,       \* the active level (0: the top-level run is over)
  ing,       \* the get_and_save_data in progress
  fetched,   \* web_crawler calls of this run: per URL none, "once" or "again",
             \* and whether one was made while chunk 0 of the URL was stored
  outcome,   \* "running", "returned" or "raised"
  result,    \* what the top-level run returned
  fan,       \* the crawl tasks of one process_query, counted
  client,    \* the SearXNGClient objects: last_request_time and _lock
  caller,    \* the calls of SearXNGClient.search in progress
  purged,    \* whether delete_workspace_data was called, and the index before
  srch,      \* one call of SearXNGClient.search: what it got and what it returns
  env,       \* an environment that answers the same each time: what fails
  runs,      \* the number of the top-level run in progress
  store1,    \* the index as the first run left it
  chk,       \* one call of TextChunker.chunk_text
  crawl      \* one call of web_crawler

\* the state of a run of the agent, and the state the other developments of
\* this module use
runVars == <<cfg, store, store0, lv, cur, ing, fetched, outcome, result>>

fanVars == <<fan>>

throttleVars == <<client, caller>>

purgeVars == <<purged>>

searchVars == <<srch>>

twiceVars == <<env, runs, store1>>
toolVars == <<chk, crawl>>

outside == <<fanVars, throttleVars, purgeVars, searchVars, twiceVars, toolVars>>

\* what the fan-out and the search client leave alone
notFan == <<runVars, throttleVars, purgeVars, searchVars, twiceVars, toolVars>>

notThrottle == <<runVars, fanVars, purgeVars, searchVars, twiceVars, toolVars>>

notSearch == <<runVars, fanVars, throttleVars, purgeVars, twiceVars, toolVars>>
notChunk == <<runVars, fanVars, throttleVars, purgeVars, searchVars, twiceVars, crawl>>
notCrawl == <<runVars, fanVars, throttleVars, purgeVars, searchVars, twiceVars, chk>>

vars == <<cfg, store, store0, lv, cur, ing, fetched, outcome, result, fan,
          client, caller, purged, srch, env, runs, store1, chk, crawl>>

(***************************************************************************)
(* Pure helpers.                                                           *)
(***************************************************************************)
Min(a, b) == IF a <= b THEN a ELSE b

Range(s) == {s[k] : k \in 1..Len(s)}

\* s[:n]
Take(s, n) == SubSeq(s, 1, Min(n, Len(s)))

\* s[a:b] with 0-based a, exclusive b
Slice(s, a, b) == SubSeq(s, a + 1, Min(b, Len(s)))

\* the sequences over S of length at most n
SeqsUpTo(S, n) == UNION {[1..k -> S] : k \in 0..n}

\* f"{md5(url)}_chunk_{chunk_id}"
RecordId(url, chunk_id) == <<Md5(url), chunk_id>>

(***************************************************************************)
(* The vector index.                                                       *)
(***************************************************************************)
\* index.upsert_records(namespace, records): insert or replace by _id
Upsert(st, ns, records) ==
  [st EXCEPT ![ns] =
     {r \in st[ns] : \A n \in records : n._id # r._id} \cup records]

\* index.fetch(ids=[id]) without a namespace: the default namespace
Fetch(st, id) == {r \in st[DefaultNamespace] : r._id = id}

\* index.delete(filter={"unique_id": w}) without a namespace
DeleteByFilter(st, w) ==
  [st EXCEPT ![DefaultNamespace] = {r \in st[DefaultNamespace] : r.unique_id # w}]

\* one hit of index.search as run reads it
Hit(r, text) ==
  [_id |-> r._id, unique_id |-> r.unique_id, url |-> r.url,
   chunk_id |-> r.chunk_id, chunk_text |-> r.chunk_text,
   score |-> IndexScore(text, r.chunk_text)]

\* the hits of a set, best score first
RECURSIVE SortHits(_)
SortHits(H) ==
  IF H = {} THEN <<>>
  ELSE LET best == CHOOSE h \in H : \A g \in H : g.score <= h.score
       IN <<best>> \o SortHits(H \ {best})

\* a search that carries no filter
IndexSearchUnfiltered(st, w, text) ==
  Take(SortHits({Hit(r, text) : r \in st[SearchNamespace]}), TopK)

\* index.search(namespace="Search", query={top_k, inputs: text,
\* filter: {unique_id: w}})
IndexSearch(st, w, text) ==
  Take(SortHits({Hit(r, text) : r \in {x \in st[SearchNamespace] : x.unique_id = w}}),
       TopK)

(***************************************************************************)
(* Ingestion helpers.                                                      *)
(***************************************************************************)
\* the chunk record _crawl_and_chunk builds for chunk number idx (1-based
\* position in the chunker's output, chunk_id = idx - 1)
ChunkRecord(w, url, idx) ==
  [_id |-> RecordId(url, idx - 1), unique_id |-> w, title |-> Title(url),
   description |-> Description(url), url |-> url, chunk_id |-> idx - 1,
   chunk_text |-> Page(url)[idx]]

\* a gate that lets every chunk through
IsRelevantAlways(text, url, idx) == TRUE

\* the test of _crawl_and_chunk that lets a chunk through
IsRelevant(text, url, idx) == Similarity(text, Page(url)[idx]) >= similarity_threshold

\* _crawl_and_chunk(query, url) when the crawl succeeded: the records of the
\* chunks that pass the similarity threshold, in chunk order
RECURSIVE RelevantFrom(_, _, _, _)
RelevantFrom(w, text, url, idx) ==
  IF idx > Len(Page(url)) THEN <<>>
  ELSE (IF IsRelevant(text, url, idx) THEN <<ChunkRecord(w, url, idx)>> ELSE <<>>)
       \o RelevantFrom(w, text, url, idx + 1)

CrawlAndChunk(w, text, url) == RelevantFrom(w, text, url, 1)

\* is_url_exists(url) for the agent of workspace w
IsUrlExists(st, w, url) ==
  \E v \in Fetch(st, RecordId(url, 0)) : v.unique_id = w

\* number of upsert calls save_records makes for a record list
NumBatches(records) == (Len(records) + BATCH_SIZE - 1) \div BATCH_SIZE

\* save_records(records) when its upsert call number failAt raises
\* (failAt = 0: none does): the calls before it have been made
RECURSIVE SaveFrom(_, _, _, _)
SaveFrom(st, records, b, failAt) ==
  IF b > NumBatches(records) \/ b = failAt THEN st
  ELSE SaveFrom(Upsert(st, SearchNamespace,
                       Range(Slice(records, (b - 1) * BATCH_SIZE, b * BATCH_SIZE))),
                records, b + 1, failAt)

SaveRecords(st, records, failAt) == SaveFrom(st, records, 1, failAt)

(***************************************************************************)
(* The state after construction.                                           *)
(***************************************************************************)
EmptyStore == [ns \in Namespaces |-> {}]

\* What an earlier ingestion of workspace w for query q1 left in the index:
\* the relevant chunks of the two pages q1 leads to.
SeededStore(w) ==
  SaveRecords(SaveRecords(EmptyStore, CrawlAndChunk(w, "q1", "u1"), 0),
              CrawlAndChunk(w, "q1", "u2"), 0)

Configs ==
  [unique_id : Workspaces,
   queries : SeqsUpTo(QueryTexts, MaxQueries),
   get_answer : BOOLEAN,
   get_multiple_answer : BOOLEAN,
   max_retries : 0..MaxRetriesBound]

\* the query list as positions: the entries of a list are told apart by
\* where they stand, their texts may be equal
AllPositions == [k \in 1..Len(cfg.queries) |-> k]

TextOf(pos) == cfg.queries[pos]

NoRet == [kind |-> "none", summary |-> "", answers |-> <<>>]
Sentinel(summary) == [kind |-> "object", summary |-> summary, answers |-> <<>>]
AnswerList(answers) == [kind |-> "list", summary |-> "", answers |-> answers]
NoneRet == [kind |-> "None", summary |-> "", answers |-> <<>>]

\* queries_to_process if queries_to_process else self.queries
QueriesToSearch(queries_to_process) ==
  IF queries_to_process # <<>> THEN queries_to_process ELSE AllPositions

\* a call of run(retry, max_retries, queries_to_process) that has not yet
\* executed its first statement
NewLevel(retry, queries_to_process) ==
  [retry |-> retry, arg |-> queries_to_process, queries |-> <<>>,
   pc |-> "entry", i |-> 1, j |-> 0, results |-> <<>>, hadValid |-> FALSE,
   answers |-> <<>>, needs |-> <<>>, ingested |-> FALSE, ingestArg |-> <<>>,
   lookups |-> {}, raised |-> {}, kept |-> <<>>,
   hit |-> {}, ret |-> NoRet]

IdleIngest == [active |-> FALSE, queries |-> <<>>, batch_start |-> 0, tasks |-> <<>>]

\* no process_query is looked at on its own
NoFanOut == [pc |-> "off", urls |-> 0, inflight |-> 0]

\* one run, in an environment free to answer differently each time
OneRun == env = <<>> /\ runs = 1 /\ store1 = EmptyStore

\* neither the chunker nor the crawler is looked at on its own
NoTools == chk = <<>> /\ crawl = <<>>

\* delete_workspace_data has not been called
NotPurged == [done |-> FALSE, before |-> EmptyStore]

\* no SearXNGClient is looked at on its own
NoThrottle == client = <<>> /\ caller = <<>> /\ srch = <<>>

Init ==
  /\ cfg \in Configs
  /\ store \in {EmptyStore, SeededStore("w1")}
  /\ store0 = store
  /\ lv = <<NewLevel(0, <<>>)>>
  /\ cur = 1
  /\ ing = IdleIngest
  /\ fetched = [u \in Urls |-> [calls |-> "none", stored |-> FALSE]]
  /\ outcome = "running"
  /\ result = NoRet
  /\ fan = NoFanOut
  /\ NoThrottle
  /\ purged = NotPurged
  /\ OneRun
  /\ NoTools

(***************************************************************************)
(* run: entry, the retrieval loop, the summarising agent.                  *)
(***************************************************************************)
Running == outcome = "running" /\ cur >= 1

AtPc(pc) == Running /\ lv[cur].pc = pc

\* get_and_save_data(queries) up to its first await: the first batch of
\* process_query coroutines is handed to asyncio.gather
BatchTasksUncut(queries, batch_start) ==
  LET batch == Slice(queries, batch_start, Len(queries))
  IN [k \in 1..Len(batch) |-> [q |-> batch[k], st |-> "search", crawls |-> <<>>]]

BatchTasks(queries, batch_start) ==
  LET batch == Slice(queries, batch_start, batch_start + QUERY_BATCH_SIZE)
  IN [k \in 1..Len(batch) |-> [q |-> batch[k], st |-> "search", crawls |-> <<>>]]

StartIngest(queries) ==
  LET queries_to_process == IF queries # <<>> THEN queries ELSE AllPositions
  IN [active |-> TRUE, queries |-> queries_to_process, batch_start |-> 0,
      tasks |-> BatchTasks(queries_to_process, 0)]

\* the first statements of run: the retry guard, the choice of the queries
\* and of the branch
EntryGuard(retry, max_retries) == retry > max_retries

WantsAnswers == cfg.get_answer \/ cfg.get_multiple_answer

RunEntry ==
  /\ AtPc("entry")
  /\ LET f == lv[cur]
         qs == QueriesToSearch(f.arg)
     IN IF EntryGuard(f.retry, cfg.max_retries)
        THEN /\ lv' = [lv EXCEPT ![cur].pc = "return", ![cur].ret = Sentinel(EmptySummary)]
             /\ ing' = ing
        ELSE IF WantsAnswers
        THEN /\ lv' = [lv EXCEPT ![cur].pc = "loop", ![cur].queries = qs]
             /\ ing' = ing
        ELSE /\ lv' = [lv EXCEPT ![cur].pc = "ingest", ![cur].queries = qs,
                                 ![cur].ingested = TRUE, ![cur].ingestArg = qs]
             /\ ing' = StartIngest(qs)
  /\ UNCHANGED <<cfg, store, store0, cur, fetched, outcome, result>>
  /\ UNCHANGED outside

\* queries_needing_data.append(query); continue
NeedsData(f) == [f EXCEPT !.needs = Append(f.needs, f.queries[f.i]), !.i = f.i + 1,
                          !.pc = "loop", !.results = <<>>, !.j = 0, !.hadValid = FALSE]

\* the query is done without joining queries_needing_data
NextQuery(f) == [f EXCEPT !.i = f.i + 1, !.pc = "loop", !.results = <<>>, !.j = 0,
                          !.hadValid = FALSE]

\* the hits the specification lets through: score at least
\* RETRIEVE_SCORE_THRESHOLD and a chunk_text
Qualifying(results) ==
  {h \in Range(results) : h.score >= RETRIEVE_SCORE_THRESHOLD /\ h.chunk_text # ""}

\* one pass of "for query in queries_to_search" up to the await of the
\* summarising agent, or to the next query
StoreLookup ==
  /\ AtPc("loop")
  /\ lv[cur].i <= Len(lv[cur].queries)
  /\ \E raises \in BOOLEAN :
       LET q == lv[cur].queries[lv[cur].i]
           results == IF raises THEN <<>>
                      ELSE IndexSearch(store, cfg.unique_id, TextOf(q))
           f == [lv[cur] EXCEPT !.lookups = @ \cup {q},
                                !.raised = IF raises THEN @ \cup {q} ELSE @,
                                !.kept = IF raises THEN lv[cur].answers ELSE @,
                                !.hit = @ \cup (IF Qualifying(results) # {} THEN {q} ELSE {})]
       IN lv' = [lv EXCEPT ![cur] =
                   IF raises \/ results = <<>> THEN NeedsData(f)
                   ELSE IF cfg.get_answer /\ ~cfg.get_multiple_answer
                        THEN [f EXCEPT !.pc = "llm", !.results = results, !.j = 0]
                   ELSE IF cfg.get_answer /\ cfg.get_multiple_answer
                        THEN [f EXCEPT !.pc = "llm", !.results = results, !.j = 1]
                   ELSE NextQuery(f)]
  /\ UNCHANGED <<cfg, store, store0, cur, ing, fetched, outcome, result>>
  /\ UNCHANGED outside

\* What "answer = await self.explorer_agent.run(user_prompt)" followed by
\* "answer.result.summary" can do: the LLM call raises; the output does not
\* parse into ExplorerAgentOutput, so that result is a str (or run returns
\* None) and .summary raises AttributeError; or result is an
\* ExplorerAgentOutput with some summary.
LLMOutcomes == {"raise", "unparsable", NoDataFound, EmptySummary, GoodSummary}

Answer(f, summary, hits) ==
  [q |-> f.queries[f.i], level |-> f.retry, summary |-> summary, hits |-> hits]

\* "if answer.result.summary != 'No Data Found'"
Accepts(summary) == summary # NoDataFound

\* a single-answer branch that puts the query among queries_needing_data
\* even when its answer was appended
SingleAnswerStillNeedsData(f, summary) ==
  IF Accepts(summary)
  THEN NeedsData([f EXCEPT !.answers = Append(f.answers, Answer(f, summary, Range(f.results)))])
  ELSE NeedsData(f)

\* the single-answer branch after the agent answered
SingleAnswer(f, summary) ==
  IF Accepts(summary)
  THEN NextQuery([f EXCEPT !.answers = Append(f.answers, Answer(f, summary, Range(f.results)))])
  ELSE NeedsData(f)

\* one turn of "for result in results" of the multiple-answer branch
MultiAnswer(f, summary) ==
  LET g == IF Accepts(summary)
           THEN [f EXCEPT !.answers = Append(f.answers, Answer(f, summary, {f.results[f.j]})),
                          !.hadValid = TRUE]
           ELSE f
  IN IF f.j < Len(f.results) THEN [g EXCEPT !.j = f.j + 1]
     ELSE IF g.hadValid THEN NextQuery(g) ELSE NeedsData(g)

LLMAnswer ==
  /\ AtPc("llm")
  /\ \E o \in LLMOutcomes :
       IF o \in {"raise", "unparsable"}
       THEN /\ outcome' = "raised"
            /\ result' = [kind |-> "exception", summary |-> o, answers |-> <<>>]
            /\ lv' = [lv EXCEPT ![cur].pc = "raised"]
       ELSE /\ lv' = [lv EXCEPT ![cur] =
                        IF lv[cur].j = 0 THEN SingleAnswer(lv[cur], o)
                        ELSE MultiAnswer(lv[cur], o)]
            /\ UNCHANGED <<outcome, result>>
  /\ UNCHANGED <<cfg, store, store0, cur, ing, fetched>>
  /\ UNCHANGED outside

\* "if queries_needing_data:" after the loop
StartsIngestion(f) == f.needs # <<>>

\* "if not all_answers: return <sentinel>; return all_answers"
ReturnValue(answers) ==
  IF answers = <<>> THEN Sentinel(NoValidData) ELSE AnswerList(answers)

LoopEnd ==
  /\ AtPc("loop")
  /\ lv[cur].i > Len(lv[cur].queries)
  /\ IF StartsIngestion(lv[cur])
     THEN /\ lv' = [lv EXCEPT ![cur].pc = "ingest", ![cur].ingested = TRUE,
                              ![cur].ingestArg = lv[cur].needs]
          /\ ing' = StartIngest(lv[cur].needs)
     ELSE /\ lv' = [lv EXCEPT ![cur].pc = "return",
                              ![cur].ret = ReturnValue(lv[cur].answers)]
          /\ ing' = ing
  /\ UNCHANGED <<cfg, store, store0, cur, fetched, outcome, result>>
  /\ UNCHANGED outside

(***************************************************************************)
(* get_and_save_data: process_query, the crawl tasks, save_records.        *)
(***************************************************************************)
\* whether chunk 0 of the URL is stored for the workspace where ingestion
\* stores it (the records save_records upserted)
Chunk0Stored(st, w, url) ==
  \E r \in st[SearchNamespace] : r._id = RecordId(url, 0) /\ r.unique_id = w

\* "for result in search_results: if self.is_url_exists(url): continue;
\* crawl_tasks.append(...)": the URLs to crawl, in order, repeats kept
RECURSIVE CrawlList(_, _, _)
CrawlList(st, w, urls) ==
  IF urls = <<>> THEN <<>>
  ELSE (IF IsUrlExists(st, w, Head(urls)) THEN <<>> ELSE <<Head(urls)>>)
       \o CrawlList(st, w, Tail(urls))

\* how many times a URL stands in a list
Count(urls, u) == Cardinality({k \in 1..Len(urls) : urls[k] = u})

\* the record of the web_crawler calls for a URL after n more calls, made
\* while chunk 0 of the URL was or was not stored for the workspace
Called(f, n, stored) ==
  IF n = 0 THEN f
  ELSE [calls |-> IF f.calls = "none" /\ n = 1 THEN "once" ELSE "again",
        stored |-> f.stored \/ stored]

\* process_query from the return of search_tool.search to the first await of
\* the crawl tasks.  search returned its results cut to max_results, or the
\* empty list after its retries failed; is_url_exists may raise, which ends
\* process_query.  asyncio.as_completed starts every crawl task, and each
\* calls web_crawler.
WebSearchStep(t, found, existsRaises) ==
  /\ AtPc("ingest")
  /\ t \in 1..Len(ing.tasks)
  /\ ing.tasks[t].st = "search"
  /\ LET q == ing.tasks[t].q
         search_results == IF found THEN Take(WebResults(TextOf(q)), max_results)
                           ELSE <<>>
         urls == CrawlList(store, cfg.unique_id, search_results)
     IN /\ existsRaises => search_results # <<>>
        /\ IF existsRaises
           THEN /\ ing' = [ing EXCEPT !.tasks[t].st = "failed"]
                /\ fetched' = fetched
           ELSE /\ ing' = [ing EXCEPT
                             !.tasks[t].st = IF urls = <<>> THEN "done" ELSE "crawl",
                             !.tasks[t].crawls =
                                [k \in 1..Len(urls) |-> [url |-> urls[k], st |-> "fetching"]]]
                /\ fetched' = [u \in Urls |-> Called(fetched[u], Count(urls, u),
                                                     Chunk0Stored(store, cfg.unique_id, u))]
  /\ UNCHANGED <<cfg, store, store0, lv, cur, outcome, result>>
  /\ UNCHANGED outside

WebSearchReturn(t) ==
  \E found \in BOOLEAN, existsRaises \in BOOLEAN : WebSearchStep(t, found, existsRaises)

\* the crawl tasks of a process_query that ended by an exception go on
\* without anyone awaiting them
Orphaned(crawls) ==
  [k \in 1..Len(crawls) |->
     IF crawls[k].st = "fetching" THEN [crawls[k] EXCEPT !.st = "orphan"] ELSE crawls[k]]

AllCrawled(crawls) == \A k \in 1..Len(crawls) : crawls[k].st = "done"

\* One crawl task completes and process_query takes its result:
\* _crawl_and_chunk returns [] when the crawl or anything after it failed,
\* else the relevant records; a non-empty list goes to save_records, whose
\* upsert may raise, which ends process_query.
CrawlStep(t, c, crawled, failAt) ==
  /\ AtPc("ingest")
  /\ t \in 1..Len(ing.tasks)
  /\ ing.tasks[t].st = "crawl"
  /\ c \in 1..Len(ing.tasks[t].crawls)
  /\ ing.tasks[t].crawls[c].st = "fetching"
  /\ LET task == ing.tasks[t]
         rec_list == IF crawled
                     THEN CrawlAndChunk(cfg.unique_id, TextOf(task.q), task.crawls[c].url)
                     ELSE <<>>
         done == [task.crawls EXCEPT ![c].st = "done"]
     IN /\ failAt \in 0..NumBatches(rec_list)
        /\ store' = SaveRecords(store, rec_list, failAt)
        /\ ing' = [ing EXCEPT !.tasks[t] =
                     IF failAt # 0
                     THEN [task EXCEPT !.st = "failed", !.crawls = Orphaned(done)]
                     ELSE [task EXCEPT !.st = IF AllCrawled(done) THEN "done" ELSE "crawl",
                                       !.crawls = done]]
  /\ UNCHANGED <<cfg, store0, lv, cur, fetched, outcome, result>>
  /\ UNCHANGED outside

\* the most upsert calls save_records makes for the records of one page
MaxSaves == NumBatches(Page("u1"))

CrawlComplete(t, c) ==
  \E crawled \in BOOLEAN, failAt \in 0..MaxSaves : CrawlStep(t, c, crawled, failAt)

\* asyncio.gather(..., return_exceptions=True) returned: every
\* process_query of the batch ended, by return or by exception.  Then the
\* next batch, or get_and_save_data returns.
BatchDone ==
  /\ AtPc("ingest")
  /\ \A t \in 1..Len(ing.tasks) : ing.tasks[t].st \in {"done", "failed"}
  /\ LET total_queries == Len(ing.queries)
         batch_end == Min(ing.batch_start + QUERY_BATCH_SIZE, total_queries)
     IN IF batch_end < total_queries
        THEN /\ ing' = [ing EXCEPT !.batch_start = batch_end,
                                   !.tasks = BatchTasks(ing.queries, batch_end)]
             /\ lv' = lv
        ELSE /\ ing' = IdleIngest
             /\ lv' = [lv EXCEPT ![cur].pc = "ingested", ![cur].hit = {}]
  /\ UNCHANGED <<cfg, store, store0, cur, fetched, outcome, result>>
  /\ UNCHANGED outside

(***************************************************************************)
(* run: after ingestion, the recursion and the return.                     *)
(***************************************************************************)
\* retrieve branch: asyncio.sleep(2), then
\* self.run(retry + 1, max_retries, queries_needing_data);
\* else branch: return None
AfterIngest ==
  /\ AtPc("ingested")
  /\ IF WantsAnswers
     THEN /\ lv' = Append([lv EXCEPT ![cur].pc = "await"],
                          NewLevel(lv[cur].retry + 1, lv[cur].needs))
          /\ cur' = cur + 1
     ELSE /\ lv' = [lv EXCEPT ![cur].pc = "return", ![cur].ret = NoneRet]
          /\ cur' = cur
  /\ UNCHANGED <<cfg, store, store0, ing, fetched, outcome, result>>
  /\ UNCHANGED outside

\* "r.summary and r.summary != <sentinel> and r.summary != 'No Data Found'"
ValidSummary(summary) ==
  summary # EmptySummary /\ summary # NoValidData /\ summary # NoDataFound

RECURSIVE FilterValid(_)
FilterValid(answers) ==
  IF answers = <<>> THEN <<>>
  ELSE (IF ValidSummary(Head(answers).summary) THEN <<Head(answers)>> ELSE <<>>)
       \o FilterValid(Tail(answers))

\* "Combine results from successful queries and retried queries": the
\* caller's all_answers after the recursive call returned retry_results
Merge(answers, retry_results) ==
  IF retry_results.kind = "list" THEN answers \o FilterValid(retry_results.answers)
  ELSE answers

\* A level returns.  The top level ends the run; a deeper level hands its
\* value to the caller, which merges it and returns in turn.
Return ==
  /\ AtPc("return")
  /\ IF cur = 1
     THEN /\ outcome' = "returned"
          /\ result' = lv[cur].ret
          /\ lv' = [lv EXCEPT ![cur].pc = "returned"]
          /\ cur' = 0
     ELSE /\ lv' = [lv EXCEPT
                      ![cur].pc = "returned",
                      ![cur - 1].answers = Merge(lv[cur - 1].answers, lv[cur].ret),
                      ![cur - 1].ret =
                         ReturnValue(Merge(lv[cur - 1].answers, lv[cur].ret)),
                      ![cur - 1].pc = "return"]
          /\ cur' = cur - 1
          /\ UNCHANGED <<outcome, result>>
  /\ UNCHANGED <<cfg, store, store0, ing, fetched>>
  /\ UNCHANGED outside

\* delete_workspace_data(), called once the run is over:
\* self.index.delete(filter={"unique_id": self.unique_id})
Purge ==
  /\ outcome \in {"returned", "raised"}
  /\ ~purged.done
  /\ store' = DeleteByFilter(store, cfg.unique_id)
  /\ purged' = [done |-> TRUE, before |-> store]
  /\ UNCHANGED <<cfg, store0, lv, cur, ing, fetched, outcome, result>>
  /\ UNCHANGED <<fanVars, throttleVars, searchVars, twiceVars, toolVars>>

Next ==
  \/ RunEntry
  \/ StoreLookup
  \/ LLMAnswer
  \/ LoopEnd
  \/ \E t \in 1..MaxQueries : WebSearchReturn(t)
  \/ \E t \in 1..MaxQueries : \E c \in 1..max_results : CrawlComplete(t, c)
  \/ BatchDone
  \/ AfterIngest
  \/ Return
  \/ Purge

Spec == Init /\ [][Next]_vars

\* Every step is a callback of the event loop, which runs each ready
\* callback; the external calls are assumed to return or fail.
FairSpec == Spec /\ WF_vars(Next)

(***************************************************************************)
(* The same ingest-only run, made twice in an environment that answers the *)
(* same each time: a query's search either yields its result list or       *)
(* nothing, a page is either fetched or not, and the index either takes    *)
(* the records of a page or rejects them, the same way in both runs.  The  *)
(* order in which the crawl tasks complete stays free: it is the event     *)
(* loop's.                                                                 *)
(***************************************************************************)
Environments ==
  [search_empty : SUBSET QueryTexts,
   fetch_fails : SUBSET Urls,
   upsert_rejects : SUBSET Urls]

\* get_answer=False, get_multiple_answer=False: "else: await
\* self.get_and_save_data(...); return None"
IngestOnlyConfigs ==
  {c \in Configs : ~c.get_answer /\ ~c.get_multiple_answer /\ c.max_retries = 0}

TwiceInit ==
  /\ cfg \in IngestOnlyConfigs
  /\ store \in {EmptyStore, SeededStore("w1")}
  /\ store0 = store
  /\ lv = <<NewLevel(0, <<>>)>>
  /\ cur = 1
  /\ ing = IdleIngest
  /\ fetched = [u \in Urls |-> [calls |-> "none", stored |-> FALSE]]
  /\ outcome = "running"
  /\ result = NoRet
  /\ fan = NoFanOut
  /\ NoThrottle
  /\ purged = NotPurged
  /\ env \in Environments
  /\ runs = 1
  /\ store1 = EmptyStore
  /\ NoTools

\* self.search_tool.search(query, max_results) in this environment
EnvWebSearchReturn(t) ==
  /\ t \in 1..Len(ing.tasks)
  /\ WebSearchStep(t, TextOf(ing.tasks[t].q) \notin env.search_empty, FALSE)

\* the crawl of one URL and the save of its records in this environment
EnvCrawlComplete(t, c) ==
  /\ t \in 1..Len(ing.tasks)
  /\ c \in 1..Len(ing.tasks[t].crawls)
  /\ LET url == ing.tasks[t].crawls[c].url
         crawled == url \notin env.fetch_fails
         rec_list == IF crawled
                     THEN CrawlAndChunk(cfg.unique_id, TextOf(ing.tasks[t].q), url)
                     ELSE <<>>
         failAt == IF url \in env.upsert_rejects /\ rec_list # <<>> THEN 1 ELSE 0
     IN CrawlStep(t, c, crawled, failAt)

\* the first run has returned; run() is called again with the same
\* arguments on the index the first run left
RunAgain ==
  /\ outcome = "returned"
  /\ runs = 1
  /\ runs' = 2
  /\ store1' = store
  /\ lv' = <<NewLevel(0, <<>>)>>
  /\ cur' = 1
  /\ outcome' = "running"
  /\ result' = NoRet
  /\ fetched' = [u \in Urls |-> [calls |-> "none", stored |-> FALSE]]
  /\ UNCHANGED <<cfg, store, store0, ing, env>>
  /\ UNCHANGED <<fanVars, throttleVars, purgeVars, searchVars, toolVars>>

TwiceNext ==
  \/ RunEntry
  \/ \E t \in 1..MaxQueries : EnvWebSearchReturn(t)
  \/ \E t \in 1..MaxQueries : \E c \in 1..max_results : EnvCrawlComplete(t, c)
  \/ BatchDone
  \/ AfterIngest
  \/ Return
  \/ RunAgain

TwiceSpec == TwiceInit /\ [][TwiceNext]_vars

(***************************************************************************)
(* Ingestion of more queries than one batch holds: an ingest-only run for  *)
(* up to MaxBatchQueries queries, all with the text "q2".                  *)
(***************************************************************************)
MaxBatchQueries == 11

BatchInit ==
  /\ \E n \in 0..MaxBatchQueries :
       cfg = [unique_id |-> "w1", queries |-> [k \in 1..n |-> "q2"],
              get_answer |-> FALSE, get_multiple_answer |-> FALSE, max_retries |-> 0]
  /\ store = EmptyStore
  /\ store0 = store
  /\ lv = <<NewLevel(0, <<>>)>>
  /\ cur = 1
  /\ ing = IdleIngest
  /\ fetched = [u \in Urls |-> [calls |-> "none", stored |-> FALSE]]
  /\ outcome = "running"
  /\ result = NoRet
  /\ fan = NoFanOut
  /\ NoThrottle
  /\ purged = NotPurged
  /\ OneRun
  /\ NoTools

BatchNext ==
  \/ RunEntry
  \/ \E t \in 1..QUERY_BATCH_SIZE : WebSearchReturn(t)
  \/ \E t \in 1..QUERY_BATCH_SIZE : \E c \in 1..max_results : CrawlComplete(t, c)
  \/ BatchDone
  \/ AfterIngest
  \/ Return

BatchSpec == BatchInit /\ [][BatchNext]_vars

(***************************************************************************)
(* The crawl fan-out of one process_query, for any number of URLs.         *)
(* crawl_tasks gets one _crawl_and_chunk coroutine per URL that            *)
(* is_url_exists does not know; asyncio.as_completed(crawl_tasks) turns    *)
(* every one of them into a task at once, and the loop then takes them as  *)
(* they complete.  Only the numbers are kept.                              *)
(***************************************************************************)
\* no run of the agent is looked at
NoRun ==
  /\ cfg = [unique_id |-> "w1", queries |-> <<>>, get_answer |-> FALSE,
            get_multiple_answer |-> FALSE, max_retries |-> 0]
  /\ store = EmptyStore
  /\ store0 = EmptyStore
  /\ lv = <<>>
  /\ cur = 0
  /\ ing = IdleIngest
  /\ fetched = [u \in Urls |-> [calls |-> "none", stored |-> FALSE]]
  /\ outcome = "off"
  /\ result = NoRet
  /\ purged = NotPurged
  /\ OneRun

FanOutInit ==
  /\ NoRun
  /\ NoTools
  /\ NoThrottle
  /\ fan = [pc |-> "search", urls |-> 0, inflight |-> 0]

\* search returned n results with n URLs to crawl: "if not crawl_tasks:
\* return []", else every crawl task is started
FanOutStart ==
  /\ fan.pc = "search"
  /\ \E n \in 0..MaxUrls :
       fan' = [pc |-> IF n = 0 THEN "done" ELSE "crawl", urls |-> n, inflight |-> n]
  /\ UNCHANGED notFan

\* "rec_list = await task": one crawl task has completed
FanOutComplete ==
  /\ fan.pc = "crawl"
  /\ fan' = [fan EXCEPT !.inflight = @ - 1,
                        !.pc = IF fan.inflight = 1 THEN "done" ELSE "crawl"]
  /\ UNCHANGED notFan

FanOutNext == FanOutStart \/ FanOutComplete

FanOutSpec == FanOutInit /\ [][FanOutNext]_vars

(***************************************************************************)
(* SearXNGClient: the throttle gate and the attempts of search.  Two calls *)
(* of search run on the event loop, on one client (two process_query of    *)
(* one agent) or on two (two agents, each of which constructs its own      *)
(* client).  Time is counted in seconds.                                   *)
(***************************************************************************)
Clients == {"k1", "k2"}
Callers == {"s1", "s2"}

\* SearXNGClient.__init__.  since_last is time.time() - last_request_time,
\* counted up to min_delay only: last_request_time = 0 is long past.
\* passed, gap and apart remember the passes through the gate: whether there
\* was one, how long after the one before of this client the last one came,
\* and how long after the last one of another client (min_delay: at least
\* min_delay, or there was none before).
NewClient ==
  [since_last |-> min_delay, lock |-> "free", passed |-> FALSE,
   gap |-> min_delay, apart |-> min_delay]

\* a call of search(query) on client k that has not started; timer is what
\* is left of the sleep in progress, or the age of the request in flight.
\* gates and requests count the passes of this call through the gate and
\* the HTTP requests it issued; waited is how long the sleep after the
\* last failed attempt took.
NewCaller(k) ==
  [client |-> k, pc |-> "idle", attempt |-> 0, timer |-> 0, failed |-> "no",
   result |-> "none", gates |-> 0, requests |-> 0, waited |-> 0]

\* one search is called at once, the other at any time, on the same client
\* or on another one
ThrottleInit ==
  /\ NoRun
  /\ NoTools
  /\ fan = NoFanOut
  /\ srch = <<>>
  /\ client = [k \in Clients |-> NewClient]
  /\ \E k \in Clients :
       caller = [s \in Callers |->
                   IF s = "s1" THEN [NewCaller("k1") EXCEPT !.pc = "lock"]
                   ELSE NewCaller(k)]

\* a gate that never waits
WaitTimeNone(time_since_last) == 0

\* "if time_since_last < self.min_delay: wait_time = self.min_delay -
\* time_since_last", else no wait
WaitTime(time_since_last) ==
  IF time_since_last < min_delay THEN min_delay - time_since_last ELSE 0

\* how long ago the last pass through the gate of another client was
SinceOther(k) ==
  LET ages == {client[o].since_last : o \in {x \in Clients \ {k} : client[x].passed}}
  IN IF ages = {} THEN min_delay ELSE CHOOSE a \in ages : \A b \in ages : a <= b

\* "self.last_request_time = time.time()", the lock is released and the
\* HTTP request is issued
PassGate(s) ==
  LET k == caller[s].client
  IN /\ client' = [client EXCEPT ![k].since_last = 0,
                                 ![k].lock = "free",
                                 ![k].passed = TRUE,
                                 ![k].gap = IF client[k].passed THEN client[k].since_last
                                            ELSE min_delay,
                                 ![k].apart = SinceOther(k)]
     /\ caller' = [caller EXCEPT ![s].pc = "http", ![s].timer = 0,
                                 ![s].gates = @ + 1, ![s].requests = @ + 1]

\* search is called: the first turn of "for attempt in range(max_retries)"
\* reaches "async with self._lock"
SearchCall(s) ==
  /\ caller[s].pc = "idle"
  /\ caller' = [caller EXCEPT ![s].pc = "lock"]
  /\ UNCHANGED client
  /\ UNCHANGED notThrottle

\* _throttled_request with the lock acquired: sleep under the lock, or pass
LockAcquire(s) ==
  /\ caller[s].pc = "lock"
  /\ client[caller[s].client].lock = "free"
  /\ LET k == caller[s].client
         wait_time == WaitTime(client[k].since_last)
     IN IF wait_time > 0
        THEN /\ client' = [client EXCEPT ![k].lock = s]
             /\ caller' = [caller EXCEPT ![s].pc = "sleep", ![s].timer = wait_time]
        ELSE PassGate(s)
  /\ UNCHANGED notThrottle

\* asyncio.sleep(wait_time) is over
ThrottleWake(s) ==
  /\ caller[s].pc = "sleep"
  /\ caller[s].timer <= 0
  /\ PassGate(s)
  /\ UNCHANGED notThrottle

\* the sleep after a failed attempt: "(2**attempt) * 5" after a timeout,
\* 3 seconds after any other exception
BackoffTime(kind, attempt) == IF kind = "timeout" THEN (2 ^ attempt) * 5 ELSE 3

\* the except branches of search
AttemptFailed(c, kind) ==
  IF c.attempt < search_max_retries - 1
  THEN [c EXCEPT !.pc = "backoff", !.failed = kind,
                 !.timer = BackoffTime(kind, c.attempt)]
  ELSE [c EXCEPT !.pc = "done", !.failed = kind, !.timer = 0, !.result = "empty"]

\* the HTTP request ends before the timeout: with results, or with an
\* exception other than TimeoutError
HttpReturn(s) ==
  /\ caller[s].pc = "http"
  /\ \E ok \in BOOLEAN :
       caller' = [caller EXCEPT ![s] =
                    IF ok THEN [@ EXCEPT !.pc = "done", !.timer = 0, !.result = "results"]
                    ELSE AttemptFailed(@, "error")]
  /\ UNCHANGED client
  /\ UNCHANGED notThrottle

\* aiohttp.ClientTimeout(total=30) expires
HttpTimeout(s) ==
  /\ caller[s].pc = "http"
  /\ caller[s].timer >= HTTP_TIMEOUT
  /\ caller' = [caller EXCEPT ![s] = AttemptFailed(@, "timeout")]
  /\ UNCHANGED client
  /\ UNCHANGED notThrottle

\* a retry that issues its request without _throttled_request
BackoffOverPastGate(s) ==
  /\ caller[s].pc = "backoff"
  /\ caller[s].timer <= 0
  /\ caller' = [caller EXCEPT ![s].pc = "http", ![s].attempt = @ + 1, ![s].timer = 0,
                              ![s].failed = "no", ![s].requests = @ + 1,
                              ![s].waited = BackoffTime(caller[s].failed, caller[s].attempt)
                                            - caller[s].timer]
  /\ UNCHANGED client
  /\ UNCHANGED notThrottle

\* the sleep after a failed attempt is over: the next attempt
BackoffOver(s) ==
  /\ caller[s].pc = "backoff"
  /\ caller[s].timer <= 0
  /\ caller' = [caller EXCEPT ![s].pc = "lock", ![s].attempt = @ + 1, ![s].timer = 0,
                              ![s].failed = "no",
                              ![s].waited = BackoffTime(caller[s].failed, caller[s].attempt)
                                            - caller[s].timer]
  /\ UNCHANGED client
  /\ UNCHANGED notThrottle

\* a caller one second later
Older(c) ==
  IF c.pc = "http" THEN [c EXCEPT !.timer = @ + 1]
  ELSE IF c.pc \in {"sleep", "backoff"} THEN [c EXCEPT !.timer = @ - 1]
  ELSE c

\* a second passes; a request does not outlive its timeout and a sleep
\* ends at most MaxLate seconds late
Tick ==
  /\ \E s \in Callers : caller[s].pc \notin {"idle", "done"}
  /\ \A s \in Callers : caller[s].pc = "http" => caller[s].timer < HTTP_TIMEOUT
  /\ \A s \in Callers : caller[s].pc \in {"sleep", "backoff"} => caller[s].timer > -MaxLate
  /\ caller' = [s \in Callers |-> Older(caller[s])]
  /\ client' = [k \in Clients |->
                  [client[k] EXCEPT !.since_last = Min(@ + 1, min_delay)]]
  /\ UNCHANGED notThrottle

ThrottleNext ==
  \/ \E s \in Callers : SearchCall(s)
  \/ \E s \in Callers : LockAcquire(s)
  \/ \E s \in Callers : ThrottleWake(s)
  \/ \E s \in Callers : HttpReturn(s)
  \/ \E s \in Callers : HttpTimeout(s)
  \/ \E s \in Callers : BackoffOver(s)
  \/ Tick

ThrottleSpec == ThrottleInit /\ [][ThrottleNext]_vars

(***************************************************************************)
(* SearXNGClient.search as a function of what the HTTP request and the     *)
(* filter agent gave: the list it returns when an attempt succeeded.       *)
(***************************************************************************)
\* What the model behind the filter agent can answer: the call fails, the
\* text is no JSON, it is JSON that is no SearchResults (a list, an object
\* without results_list), it is a JSON object that asks for a tool, or it
\* is a SearchResults with some list.
FilterLLMOutputs ==
  [kind : {"call_fails", "text", "json_other", "json_tool"}, results_list : {<<>>}]
  \cup [kind : {"results"}, results_list : SeqsUpTo(Urls, MaxRaw)]

\* Agent._parse_output: the SearchResults, or an exception
ParseOutput(raw) ==
  IF raw.kind = "results" THEN [kind |-> "SearchResults", results_list |-> raw.results_list]
  ELSE [kind |-> "raise", results_list |-> <<>>]

\* BaseAgent.run of the filter agent.  A parse failure is caught and the
\* raw string becomes the result ("parsed_output = raw_output"), unless the
\* string is JSON naming a tool, which the agent does not have: ValueError.
AgentRun(raw) ==
  IF raw.kind = "call_fails" THEN [kind |-> "raise", results_list |-> <<>>]
  ELSE IF ParseOutput(raw).kind = "SearchResults" THEN ParseOutput(raw)
  ELSE IF raw.kind = "json_tool" THEN [kind |-> "raise", results_list |-> <<>>]
  ELSE [kind |-> "other", results_list |-> <<>>]

\* what self.filter_agent.run can give: it raises, it returns something
\* whose result is no SearchResults, or a SearchResults with some list
FilterAgentOutcomes == {AgentRun(raw) : raw \in FilterLLMOutputs}

\* _filter_results(results, query, max_results)
FilterResults(results, maxResults, agent) ==
  IF agent.kind = "raise" THEN Take(results, maxResults)
  ELSE IF agent.kind = "other" THEN <<>>
  ELSE agent.results_list

\* the return of search after "results = await response.json()"
SearchResult(results_list, maxResults, filter_result, agent) ==
  IF filter_result
  THEN (IF results_list # <<>> THEN FilterResults(results_list, maxResults, agent)
        ELSE <<>>)
  ELSE Take(results_list, maxResults)

SearchInit ==
  /\ NoRun
  /\ NoTools
  /\ fan = NoFanOut
  /\ client = <<>>
  /\ caller = <<>>
  /\ \E results_list \in SeqsUpTo(Urls, MaxRaw), maxResults \in 0..MaxRaw,
        filter_result \in BOOLEAN, raw \in FilterLLMOutputs :
       srch = [pc |-> "called", results_list |-> results_list,
               max_results |-> maxResults, filter_result |-> filter_result,
               llm |-> raw.kind, agent |-> AgentRun(raw), out |-> <<>>]

SearchReturn ==
  /\ srch.pc = "called"
  /\ srch' = [srch EXCEPT !.pc = "returned",
                          !.out = SearchResult(srch.results_list, srch.max_results,
                                               srch.filter_result, srch.agent)]
  /\ UNCHANGED notSearch

SearchNext == SearchReturn

SearchSpec == SearchInit /\ [][SearchNext]_vars

(***************************************************************************)
(* TextChunker.chunk_text.  A text is a list of paragraphs, a paragraph a  *)
(* list of sentences, and a sentence is known by its place <<p, s>> and    *)
(* its token count.  Every sentence ends with ".", "!" or "?" and starts   *)
(* with a capital, so that split_by_sentences finds in a chunk the         *)
(* sentences it was made of; count_tokens of a text is the sum of the      *)
(* counts of its sentences.  A chunk's text is the list of its sentences.  *)
(* Sizes are scaled down: chunk_size 4 and overlap 2 for the 400 and 50    *)
(* of _crawl_and_chunk.                                                    *)
(***************************************************************************)
MaxParagraphs == 3
MaxSentences == 2
TokenCounts == {1, 2, 3, 5}
chunk_size == 4
overlap == 2

ChunkerTexts ==
  UNION {[1..n -> UNION {[1..k -> TokenCounts] : k \in 1..MaxSentences}] :
           n \in 0..MaxParagraphs}

\* split_by_sentences(paragraph), as places
SentencesOf(text, p) == [k \in 1..Len(text[p]) |-> <<p, k>>]

RECURSIVE AllSentences(_, _)
AllSentences(text, p) ==
  IF p > Len(text) THEN <<>> ELSE SentencesOf(text, p) \o AllSentences(text, p + 1)

\* count_tokens of a list of sentences of the text
RECURSIVE CountTokens(_, _)
CountTokens(text, sentences) ==
  IF sentences = <<>> THEN 0
  ELSE text[sentences[1][1]][sentences[1][2]] + CountTokens(text, Tail(sentences))

\* _create_chunk_dict; over is the number of sentences _add_overlap put
\* in front
ChunkDict(sentences, chunk_id, token_count, over) ==
  [chunk_id |-> chunk_id, text |-> sentences, token_count |-> token_count, over |-> over]

\* the loop of _add_overlap: how many trailing sentences of the previous
\* chunk are taken, newest first, while they fit into overlap
RECURSIVE OverlapLen(_, _, _)
OverlapLen(text, previous, overlap_tokens) ==
  IF previous = <<>> THEN 0
  ELSE LET sentence_tokens == CountTokens(text, <<previous[Len(previous)]>>)
       IN IF overlap_tokens + sentence_tokens <= overlap
          THEN 1 + OverlapLen(text, SubSeq(previous, 1, Len(previous) - 1),
                              overlap_tokens + sentence_tokens)
          ELSE 0

\* _add_overlap(previous_chunk, current_chunk) as a chunk dict without id
AddOverlap(text, previous_chunk, current_chunk) ==
  LET n == OverlapLen(text, previous_chunk, 0)
      new_chunk == SubSeq(previous_chunk, Len(previous_chunk) - n + 1, Len(previous_chunk))
                   \o current_chunk
  IN [text |-> new_chunk, token_count |-> CountTokens(text, new_chunk), over |-> n]

\* a flush that puts the chunk in the place of the last one
FlushedOverLast(c) ==
  IF c.current_chunk = <<>> THEN c
  ELSE [c EXCEPT !.chunks = IF c.chunks = <<>>
                            THEN <<ChunkDict(c.current_chunk, c.chunk_id, c.current_tokens, 0)>>
                            ELSE [@ EXCEPT ![Len(@)] =
                                    ChunkDict(c.current_chunk, c.chunk_id, c.current_tokens, 0)],
                 !.chunk_id = @ + 1]

\* "if current_chunk.strip(): if chunks: current_chunk, current_tokens =
\* self._add_overlap(chunks[-1]['text'], current_chunk);
\* chunks.append(...); chunk_id += 1"
Flushed(c) ==
  IF c.current_chunk = <<>> THEN c
  ELSE LET o == IF c.chunks # <<>>
                THEN AddOverlap(c.text, c.chunks[Len(c.chunks)].text, c.current_chunk)
                ELSE [text |-> c.current_chunk, token_count |-> c.current_tokens, over |-> 0]
       IN [c EXCEPT !.chunks = Append(@, ChunkDict(o.text, c.chunk_id, o.token_count, o.over)),
                    !.chunk_id = @ + 1]

ChunkInit ==
  /\ NoRun
  /\ fan = NoFanOut
  /\ NoThrottle
  /\ crawl = <<>>
  /\ \E text \in ChunkerTexts :
       chk = [pc |-> "called", text |-> text, p |-> 0, s |-> 0, chunks |-> <<>>,
              current_chunk |-> <<>>, current_tokens |-> 0, chunk_id |-> 0]

\* chunk_text up to its loop: nothing for an empty text, one chunk for a
\* text within chunk_size
ChunkCall ==
  /\ chk.pc = "called"
  /\ LET all == AllSentences(chk.text, 1)
     IN chk' = IF chk.text = <<>> THEN [chk EXCEPT !.pc = "returned"]
               ELSE IF CountTokens(chk.text, all) <= chunk_size
               THEN [chk EXCEPT !.pc = "returned",
                                !.chunks = <<ChunkDict(all, 0, CountTokens(chk.text, all), 0)>>]
               ELSE [chk EXCEPT !.pc = "paragraph", !.p = 1]
  /\ UNCHANGED notChunk

\* one turn of "for paragraph in paragraphs" for a paragraph that is not
\* split, or the entry into its sentences
ParagraphStep ==
  /\ chk.pc = "paragraph"
  /\ chk.p <= Len(chk.text)
  /\ LET paragraph == SentencesOf(chk.text, chk.p)
         paragraph_tokens == CountTokens(chk.text, paragraph)
     IN chk' = IF paragraph_tokens > chunk_size
               THEN [chk EXCEPT !.pc = "sentence", !.s = 1]
               ELSE IF paragraph_tokens + chk.current_tokens <= chunk_size
               THEN [chk EXCEPT !.current_chunk = @ \o paragraph,
                                !.current_tokens = @ + paragraph_tokens,
                                !.p = @ + 1]
               ELSE [Flushed(chk) EXCEPT !.current_chunk = paragraph,
                                         !.current_tokens = paragraph_tokens,
                                         !.p = @ + 1]
  /\ UNCHANGED notChunk

\* one turn of "for sentence in sentences"
SentenceStep ==
  /\ chk.pc = "sentence"
  /\ chk.s <= Len(chk.text[chk.p])
  /\ LET sentence == <<chk.p, chk.s>>
         sentence_tokens == CountTokens(chk.text, <<sentence>>)
     IN chk' = IF chk.current_tokens + sentence_tokens <= chunk_size
               THEN [chk EXCEPT !.current_chunk = Append(@, sentence),
                                !.current_tokens = @ + sentence_tokens,
                                !.s = @ + 1]
               ELSE [Flushed(chk) EXCEPT !.current_chunk = <<sentence>>,
                                         !.current_tokens = sentence_tokens,
                                         !.s = @ + 1]
  /\ UNCHANGED notChunk

\* after the sentences of a split paragraph: the chunk in progress is
\* closed
SentencesEnd ==
  /\ chk.pc = "sentence"
  /\ chk.s > Len(chk.text[chk.p])
  /\ chk' = [Flushed(chk) EXCEPT !.current_chunk = <<>>, !.current_tokens = 0,
                                 !.pc = "paragraph", !.p = @ + 1, !.s = 0]
  /\ UNCHANGED notChunk

\* after the last paragraph: the rest is a chunk, "return chunks"
ChunkReturn ==
  /\ chk.pc = "paragraph"
  /\ chk.p > Len(chk.text)
  /\ chk' = [Flushed(chk) EXCEPT !.pc = "returned", !.chunk_id = chk.chunk_id]
  /\ UNCHANGED notChunk

ChunkNext ==
  \/ ChunkCall
  \/ ParagraphStep
  \/ SentenceStep
  \/ SentencesEnd
  \/ ChunkReturn

ChunkSpec == ChunkInit /\ [][ChunkNext]_vars

(***************************************************************************)
(* web_crawler(url): the static fetch, the headless-browser fallbacks and  *)
(* the extraction.  Contents are kept by kind: "" is the empty string,     *)
(* "html" a page without a JavaScript-framework marker, "html_js" one with *)
(* a marker, "pdf" the bytes of a PDF.                                     *)
(***************************************************************************)
CrawlerUrls == {"", "example.com", "http://example.com", "https://example.com"}

\* what fetch_page_aiohttp can return: [content, is_pdf, status]
StaticFetches ==
  {[content |-> "html", is_pdf |-> FALSE, status |-> 200],
   [content |-> "html_js", is_pdf |-> FALSE, status |-> 200],
   [content |-> "", is_pdf |-> FALSE, status |-> 200],
   [content |-> "pdf", is_pdf |-> TRUE, status |-> 200],
   [content |-> "", is_pdf |-> FALSE, status |-> 404],
   [content |-> "", is_pdf |-> FALSE, status |-> 0]}

\* what fetch_page_playwright can do: fail before the browser is up, fail
\* with the browser up (both return "", False), or return the rendered
\* page or the PDF body
PlaywrightRuns ==
  {[launched |-> FALSE, content |-> "", is_pdf |-> FALSE],
   [launched |-> TRUE, content |-> "", is_pdf |-> FALSE],
   [launched |-> TRUE, content |-> "html", is_pdf |-> FALSE],
   [launched |-> TRUE, content |-> "html_js", is_pdf |-> FALSE],
   [launched |-> TRUE, content |-> "pdf", is_pdf |-> TRUE]}

NoOut == [kind |-> "none", text |-> ""]

\* "if not url.startswith(('http://', 'https://')): url = 'http://' + url"
WithProtocol(url) == IF url = "example.com" THEN "http://example.com" ELSE url

CrawlerInit ==
  /\ NoRun
  /\ fan = NoFanOut
  /\ NoThrottle
  /\ chk = <<>>
  /\ \E url \in CrawlerUrls :
       crawl = [pc |-> "called", url |-> url, static |-> "none", html_content |-> "",
                is_pdf |-> FALSE, status |-> 0, launches |-> 0, out |-> NoOut]

\* the entry of web_crawler up to the return of fetch_page_aiohttp
StaticFetch ==
  /\ crawl.pc = "called"
  /\ IF crawl.url = ""
     THEN crawl' = [crawl EXCEPT !.pc = "returned",
                                 !.out = [kind |-> "message", text |-> "No URL to scrape"]]
     ELSE \E f \in StaticFetches :
            crawl' = [crawl EXCEPT !.pc = "markers", !.url = WithProtocol(crawl.url),
                                   !.static = f.content, !.html_content = f.content,
                                   !.is_pdf = f.is_pdf, !.status = f.status]
  /\ UNCHANGED notCrawl

\* "html_lower = html_content.lower(); if any(indicator in html_lower
\* ...)": a str is searched for in the bytes of a PDF, which raises
\* TypeError
MarkerCheck ==
  /\ crawl.pc = "markers"
  /\ crawl' = IF crawl.html_content = "pdf"
              THEN [crawl EXCEPT !.pc = "raised",
                                 !.out = [kind |-> "TypeError", text |-> ""]]
              ELSE IF crawl.html_content = "html_js"
              THEN [crawl EXCEPT !.pc = "rendering"]
              ELSE [crawl EXCEPT !.pc = "fetched"]
  /\ UNCHANGED notCrawl

\* "html_content, is_pdf = await fetch_page_playwright(url)" for a page
\* with a marker
RenderPage ==
  /\ crawl.pc = "rendering"
  /\ \E r \in PlaywrightRuns :
       crawl' = [crawl EXCEPT !.pc = "fetched", !.html_content = r.content,
                              !.is_pdf = r.is_pdf,
                              !.launches = @ + (IF r.launched THEN 1 ELSE 0)]
  /\ UNCHANGED notCrawl

\* "if not html_content:" is false
HaveContent ==
  /\ crawl.pc = "fetched"
  /\ crawl.html_content # ""
  /\ crawl' = [crawl EXCEPT !.pc = "extract"]
  /\ UNCHANGED notCrawl

\* "if not html_content: html_content, is_pdf = await
\* fetch_page_playwright(url); if not html_content: return 'Failed to
\* fetch content from ...'"
FallbackFetch ==
  /\ crawl.pc = "fetched"
  /\ crawl.html_content = ""
  /\ \E r \in PlaywrightRuns :
       crawl' = [crawl EXCEPT
                   !.html_content = r.content,
                   !.is_pdf = r.is_pdf,
                   !.launches = @ + (IF r.launched THEN 1 ELSE 0),
                   !.pc = IF r.content = "" THEN "returned" ELSE "extract",
                   !.out = IF r.content = ""
                           THEN [kind |-> "message", text |-> "Failed to fetch content"]
                           ELSE @]
  /\ UNCHANGED notCrawl

\* extract_pdf_text or trafilatura.extract, with or without text, and
\* "return ScrapeResult(...)"
Extract ==
  /\ crawl.pc = "extract"
  /\ \E text \in {"", "text"} :
       crawl' = [crawl EXCEPT !.pc = "returned",
                              !.out = [kind |-> "ScrapeResult", text |-> text]]
  /\ UNCHANGED notCrawl

CrawlerNext ==
  \/ StaticFetch
  \/ MarkerCheck
  \/ RenderPage
  \/ HaveContent
  \/ FallbackFetch
  \/ Extract

CrawlerSpec == CrawlerInit /\ [][CrawlerNext]_vars

(***************************************************************************)
(* What the properties speak about.                                        *)
(***************************************************************************)
Levels == 1..Len(lv)

\* the answers level l appended itself (the others came from its child)
AnswersAt(l) ==
  {lv[l].answers[k] : k \in {n \in 1..Len(lv[l].answers) :
                               lv[l].answers[n].level = lv[l].retry}}

\* the entries of the query list level l answered
AnsweredAt(l) == {a.q : a \in AnswersAt(l)}

IsUnansweredAt(l, q) == q \notin AnsweredAt(l)

\* the queries of level l that produced no answer, in order
Unanswered(l) == SelectSeq(lv[l].queries, LAMBDA q : IsUnansweredAt(l, q))

\* the entries whose process_query, in the batch in progress, has made its
\* web search, and those for which it started crawls
WebSearched ==
  {ing.tasks[t].q : t \in {n \in 1..Len(ing.tasks) : ing.tasks[n].st # "search"}}

Crawled ==
  {ing.tasks[t].q : t \in {n \in 1..Len(ing.tasks) : ing.tasks[n].crawls # <<>>}}

RetrieveMode == cfg.get_answer

(***************************************************************************)
(* C1.  In retrieve mode the only store hits run uses to produce an answer *)
(* have a score of at least RETRIEVE_SCORE_THRESHOLD and a non-empty       *)
(* chunk_text.  The code applies no threshold: every hit goes to the       *)
(* summarising agent.                                                      *)
(***************************************************************************)
C1_AnswersOnlyFromQualifyingHits ==
  RetrieveMode =>
    \A l \in Levels : \A k \in 1..Len(lv[l].answers) :
      \A h \in lv[l].answers[k].hits :
        h.score >= RETRIEVE_SCORE_THRESHOLD /\ h.chunk_text # ""

(***************************************************************************)
(* C2.  An ingestion run of one workspace never replaces, alters or        *)
(* removes a record of another workspace.  The record id is md5(url) and   *)
(* the chunk number only, so an upsert for the same URL replaces it.       *)
(***************************************************************************)
C2_ForeignRecordsKept ==
  \A r \in store0[SearchNamespace] :
    r.unique_id # cfg.unique_id => r \in store[SearchNamespace]

(***************************************************************************)
(* C3.  A URL is crawled only if no chunk-0 record of it is stored for the *)
(* workspace among the records ingestion upserted.  is_url_exists looks    *)
(* in the default namespace, ingestion stores in "Search".                 *)
(***************************************************************************)
C3_StoredUrlNotCrawled == \A u \in Urls : ~fetched[u].stored

(***************************************************************************)
(* C4.  During one top-level run each URL is crawled at most once.         *)
(***************************************************************************)
C4_UrlCrawledAtMostOnce == \A u \in Urls : fetched[u].calls # "again"

(***************************************************************************)
(* C5.  run never terminates by raising.  The await of the summarising     *)
(* agent and the read of answer.result.summary stand outside any try.      *)
(***************************************************************************)
C5_RunNeverRaises == outcome # "raised"

(***************************************************************************)
(* C6.  A top-level run eventually returns; the retry counter grows by     *)
(* exactly 1 per level and run is never entered with                       *)
(* retry > max_retries + 1.                                                *)
(***************************************************************************)
C6_RunEventuallyReturns ==
  /\ <>(outcome = "returned")
  /\ [](\A l \in Levels : lv[l].retry = l - 1 /\ lv[l].retry <= cfg.max_retries + 1)

(***************************************************************************)
(* C7.  In retrieve mode ingestion is started at a level only if           *)
(* needs_data is non-empty and retry < MAX_RETRIES, so a run performs at   *)
(* most MAX_RETRIES ingestion rounds.                                      *)
(***************************************************************************)
C7_IngestionOnlyBelowMaxRetries ==
  RetrieveMode =>
    /\ \A l \in Levels :
         lv[l].ingested => lv[l].needs # <<>> /\ lv[l].retry < cfg.max_retries
    /\ Cardinality({l \in Levels : lv[l].ingested}) <= cfg.max_retries

(***************************************************************************)
(* C8.  With max_retries = 0 and an empty store a retrieve-mode run makes  *)
(* one pass: web search, ingestion, then a store retrieval for the         *)
(* ingested queries, whose hits are what the run returns.                  *)
(***************************************************************************)
C8_OnePassThenRetrieval ==
  (/\ outcome = "returned"
   /\ RetrieveMode
   /\ cfg.max_retries = 0
   /\ cfg.queries # <<>>
   /\ store0 = EmptyStore)
  => /\ Len(lv) = 2
     /\ lv[1].ingested /\ ~lv[2].ingested
     /\ lv[2].lookups = Range(lv[1].ingestArg)
     /\ \A k \in 1..Len(result.answers) : result.answers[k].level = lv[2].retry

(***************************************************************************)
(* C9.  At every level the queries passed to ingestion and to the          *)
(* recursive call are exactly the queries of the level that produced no    *)
(* answer, and a query answered at a level is never web-searched, crawled  *)
(* or retried at that level or deeper.                                     *)
(***************************************************************************)
C9_IngestionGetsExactlyTheUnanswered ==
  \A l \in Levels :
    /\ lv[l].ingested => lv[l].ingestArg = Unanswered(l)
    /\ l + 1 \in Levels => lv[l + 1].arg = Unanswered(l)
    /\ \A m \in Levels :
         m > l => AnsweredAt(l) \cap (Range(lv[m].queries) \cup Range(lv[m].ingestArg)) = {}
    /\ ing.active => AnsweredAt(l) \cap (WebSearched \cup Crawled) = {}

C11_CrawlsInProgressBounded == fan.inflight <= MAX_CONCURRENT_URLS

(***************************************************************************)
(* C12.  For one SearXNGClient and any concurrent callers, any two passes  *)
(* through the throttle gate (the assignments of last_request_time, each   *)
(* followed at once by the HTTP request) are at least min_delay apart.     *)
(***************************************************************************)
C12_GatePassesApart == \A k \in DOMAIN client : client[k].gap >= min_delay

\* two searches on one client, the second called within min_delay of the
\* first: its request starts when the first one's is min_delay old
C12_Witness ==
  /\ caller # <<>>
  /\ caller["s1"].client = caller["s2"].client
  /\ caller["s1"].pc = "http" /\ caller["s1"].attempt = 0
  /\ caller["s1"].timer = min_delay
  /\ caller["s2"].pc = "http" /\ caller["s2"].attempt = 0
  /\ caller["s2"].timer = 0
  /\ client[caller["s1"].client].gap = min_delay

(***************************************************************************)
(* C13.  The throttle is process-wide: any two SearXNG requests start at   *)
(* least min_delay apart, also when two agents, each with its own          *)
(* SearXNGClient, issue them.  The lock and last_request_time belong to    *)
(* the client object.                                                      *)
(***************************************************************************)
C13_RequestsOfAllClientsApart == \A k \in DOMAIN client : client[k].apart >= min_delay

(***************************************************************************)
(* C14.  At most one HTTP request of a client is in flight at any time.    *)
(* The lock is released before the request is issued.                      *)
(***************************************************************************)
C14_OneRequestInFlight ==
  \A k \in DOMAIN client :
    Cardinality({s \in DOMAIN caller : caller[s].client = k /\ caller[s].pc = "http"}) <= 1

(***************************************************************************)
(* C15.  Every record ingestion upserts comes from a chunk whose           *)
(* similarity to the query that triggered the crawl, paired with the chunk *)
(* by position, is at least similarity_threshold: whenever a crawl task    *)
(* completes, the records that are new in the store, or changed, are       *)
(* chunks of the crawled page relevant to the query of its process_query.  *)
(***************************************************************************)
C15_StoredChunksRelevant ==
  [][\A t \in 1..MaxQueries : \A c \in 1..max_results :
       CrawlComplete(t, c) =>
         \A r \in store'[SearchNamespace] \ store[SearchNamespace] :
           /\ r.url = ing.tasks[t].crawls[c].url
           /\ r.chunk_text = Page(r.url)[r.chunk_id + 1]
           /\ Similarity(TextOf(ing.tasks[t].q), r.chunk_text) >= similarity_threshold]_vars

\* a page was ingested of which one chunk was stored and another one was not
C15_Witness ==
  /\ outcome = "returned"
  /\ \E u \in Urls : \E i \in 1..Len(Page(u)) : \E j \in 1..Len(Page(u)) :
       /\ ChunkRecord(cfg.unique_id, u, i) \in store[SearchNamespace] \ store0[SearchNamespace]
       /\ \A r \in store[SearchNamespace] : r._id # RecordId(u, j - 1)

(***************************************************************************)
(* C16.  After delete_workspace_data for workspace W no record with        *)
(* unique_id = W that ingestion stored (namespace "Search") remains, and   *)
(* the records of the other workspaces are unchanged.  The delete is       *)
(* issued without a namespace.                                             *)
(***************************************************************************)
C16_PurgeRemovesWorkspaceOnly ==
  purged.done =>
    /\ \A r \in store[SearchNamespace] : r.unique_id # cfg.unique_id
    /\ {r \in store[SearchNamespace] : r.unique_id # cfg.unique_id}
         = {r \in purged.before[SearchNamespace] : r.unique_id # cfg.unique_id}

(***************************************************************************)
(* C17.  Every store search run issues for workspace W carries the filter  *)
(* unique_id = W: no record of another workspace is among the hits of a    *)
(* lookup, among the hits an answer was made from, or in what run returns. *)
(***************************************************************************)
C17_OnlyOwnRecordsInResults ==
  /\ \A l \in Levels :
       /\ \A h \in Range(lv[l].results) : h.unique_id = cfg.unique_id
       /\ \A k \in 1..Len(lv[l].answers) :
            \A h \in lv[l].answers[k].hits : h.unique_id = cfg.unique_id
  /\ \A k \in 1..Len(result.answers) :
       \A h \in result.answers[k].hits : h.unique_id = cfg.unique_id

\* a lookup returned hits while the index held a record of another
\* workspace
C17_Witness ==
  /\ \E l \in Levels : lv[l].results # <<>>
  /\ \E r \in store[SearchNamespace] : r.unique_id # cfg.unique_id

\* C18: in ingest-only mode, with a search and fetch environment that
\* returns the same results each time, the second run leaves the index as
\* the first run left it: running twice stores what running once stores.
C18_SecondRunChangesNothing ==
  (runs = 2 /\ outcome = "returned") => store = store1

\* the same with an index that rejects nothing
C18_SecondRunChangesNothingIfSaved ==
  (runs = 2 /\ outcome = "returned" /\ env.upsert_rejects = {}) => store = store1

(***************************************************************************)
(* C19.  Whenever get_answer is False, whatever get_multiple_answer, run   *)
(* is data collection only: no store lookup and no recursion, one          *)
(* ingestion pass over all queries, and None is returned.                  *)
(***************************************************************************)
C19_NoAnswerModeCollectsOnly ==
  ~cfg.get_answer =>
    /\ outcome # "raised"
    /\ \A l \in Levels :
         /\ l = 1
         /\ lv[l].lookups = {}
         /\ lv[l].ingested => lv[l].ingestArg = AllPositions
    /\ outcome = "returned" => lv[1].ingested /\ result = NoneRet

(***************************************************************************)
(* C20.  search(query, max_results, filter) returns at most max_results    *)
(* entries, with filter false and with filter true, whatever list the      *)
(* filter agent returns.                                                   *)
(***************************************************************************)
C20_AtMostMaxResults ==
  (srch # <<>> /\ srch.pc = "returned") => Len(srch.out) <= srch.max_results

(***************************************************************************)
(* C22.  During ingestion of a query, a failure while crawling, chunking,  *)
(* embedding or upserting the records of one URL does not prevent the      *)
(* records of the other URLs of the same query, or of the other queries    *)
(* of the batch, from being upserted: no crawl task is left with nobody    *)
(* to take its records.                                                    *)
(***************************************************************************)
C22_NoCrawlLeftBehind ==
  \A t \in 1..Len(ing.tasks) :
    \A c \in 1..Len(ing.tasks[t].crawls) : ing.tasks[t].crawls[c].st # "orphan"

(***************************************************************************)
(* C23.  If the store search for a query raises, that query is added to    *)
(* needs_data exactly once, processing continues with the next query, and  *)
(* the answers already collected from other queries in the same pass are   *)
(* kept in the result: the run does not end without them.                  *)
(***************************************************************************)
C23_StoreSearchFailureKeepsAnswers ==
  \A l \in Levels :
    /\ \A q \in lv[l].raised :
         /\ Count(lv[l].needs, q) = 1
         /\ \E k \in 1..Len(lv[l].queries) : k < lv[l].i /\ lv[l].queries[k] = q
    /\ lv[l].raised # {} =>
         /\ Len(lv[l].kept) <= Len(lv[l].answers)
         /\ SubSeq(lv[l].answers, 1, Len(lv[l].kept)) = lv[l].kept
         /\ outcome = "returned" => Range(lv[l].kept) \subseteq Range(result.answers)
         /\ outcome = "raised" => lv[l].kept = <<>>

\* the same for runs in which no call of the summarising agent fails and
\* no answer has an empty summary
C23_KeepsAnswersIfAgentAnswers ==
  \A l \in Levels :
    (/\ lv[l].raised # {}
     /\ outcome # "raised"
     /\ \A a \in Range(lv[l].kept) : a.summary # EmptySummary) =>
         /\ \A q \in lv[l].raised : Count(lv[l].needs, q) = 1
         /\ SubSeq(lv[l].answers, 1, Len(lv[l].kept)) = lv[l].kept
         /\ outcome = "returned" => Range(lv[l].kept) \subseteq Range(result.answers)

(***************************************************************************)
(* C24.  Ingestion processes the queries in consecutive batches of at most *)
(* QUERY_BATCH_SIZE: the process_query coroutines in progress are those of *)
(* one batch, at most QUERY_BATCH_SIZE; the batches are the consecutive    *)
(* slices of the query list, so every query is in exactly one; and the     *)
(* next batch starts, or ingestion ends, only when every process_query of  *)
(* the batch has returned or failed.                                       *)
(***************************************************************************)
BatchEnded == \A t \in 1..Len(ing.tasks) : ing.tasks[t].st \in {"done", "failed"}

C24_ConsecutiveBatches ==
  /\ [](ing.active =>
          /\ Len(ing.tasks) <= QUERY_BATCH_SIZE
          /\ ing.batch_start % QUERY_BATCH_SIZE = 0
          /\ Len(ing.tasks) = Min(QUERY_BATCH_SIZE, Len(ing.queries) - ing.batch_start)
          /\ \A k \in 1..Len(ing.tasks) : ing.tasks[k].q = ing.queries[ing.batch_start + k])
  /\ [][(ing.active /\ ing' # ing /\ (~ing'.active \/ ing'.batch_start # ing.batch_start)) =>
          /\ BatchEnded
          /\ IF ing'.active
             THEN ing'.batch_start = ing.batch_start + Len(ing.tasks)
             ELSE ing.batch_start + Len(ing.tasks) = Len(ing.queries)]_vars

\* the third batch is in progress: a query of it has searched and another
\* has not yet
C24_Witness ==
  /\ ing.active
  /\ ing.batch_start = 2 * QUERY_BATCH_SIZE
  /\ \E t \in 1..Len(ing.tasks) : ing.tasks[t].st # "search"

(***************************************************************************)
(* C29.  An answer that a recursive level of run (retry >= 1) accepted     *)
(* into its answer list is present in the list the top-level run returns:  *)
(* merging retry results into the caller's answers drops no answer the     *)
(* deeper level counted as answering its query.                            *)
(***************************************************************************)
C29_DeeperAnswersReachTheTop ==
  outcome = "returned" =>
    \A l \in Levels : lv[l].retry >= 1 => AnswersAt(l) \subseteq Range(result.answers)

(***************************************************************************)
(* C25.  After a failed attempt number a (0-based) that is not the last    *)
(* one, search waits 5 * 2^a seconds before the next attempt, whether the  *)
(* attempt failed by timeout or by any other error: a call in its attempt  *)
(* a + 1 has slept at least that long since attempt a failed.              *)
(***************************************************************************)
C25_BackoffIsExponential ==
  \A s \in DOMAIN caller :
    caller[s].attempt >= 1 => caller[s].waited >= 5 * (2 ^ (caller[s].attempt - 1))

\* the same for attempts that failed by timeout
C25_BackoffAfterTimeout ==
  [][\A s \in DOMAIN caller :
       (caller[s].pc = "backoff" /\ caller[s].failed = "timeout" /\ caller'[s].pc # "backoff")
         => caller'[s].waited >= 5 * (2 ^ caller[s].attempt)]_vars

(***************************************************************************)
(* C26.  One call of search makes at most max_retries HTTP attempts, every *)
(* attempt (each retry too) passes through the throttle gate before its    *)
(* request is issued, and when all attempts have failed the call returns   *)
(* the empty list, without raising.                                        *)
(***************************************************************************)
C26_BoundedThrottledAttempts ==
  \A s \in DOMAIN caller :
    /\ caller[s].requests <= search_max_retries
    /\ caller[s].requests <= caller[s].gates
    /\ caller[s].pc \in {"http", "backoff", "done"} => caller[s].requests = caller[s].attempt + 1
    /\ (caller[s].pc = "done" /\ caller[s].failed # "no") =>
          /\ caller[s].requests = search_max_retries
          /\ caller[s].result = "empty"
    /\ caller[s].pc = "done" => caller[s].result \in {"results", "empty"}

\* a call whose three attempts all failed has returned
C26_Witness ==
  \E s \in DOMAIN caller :
    caller[s].pc = "done" /\ caller[s].failed # "no" /\ caller[s].gates = search_max_retries

(***************************************************************************)
(* C27.  With filter = true, when the filter agent's output cannot be      *)
(* parsed into a results list, search returns the unfiltered raw search    *)
(* results cut to max_results.                                             *)
(***************************************************************************)
C27_UnparsableFilterOutputFallsBack ==
  (/\ srch # <<>>
   /\ srch.pc = "returned"
   /\ srch.filter_result
   /\ srch.llm \in {"text", "json_other", "json_tool"}) =>
      srch.out = Take(srch.results_list, srch.max_results)

\* the same when the filter agent's run ends with an exception
C27_FallsBackWhenAgentRaises ==
  (/\ srch # <<>>
   /\ srch.pc = "returned"
   /\ srch.filter_result
   /\ srch.agent.kind = "raise") =>
      srch.out = Take(srch.results_list, srch.max_results)

(***************************************************************************)
(* C21.  For every input text, every chunk produced by chunk_text has      *)
(* token_count <= CHUNK_SIZE, except a chunk that consists of a single     *)
(* sentence which alone exceeds CHUNK_SIZE.                                *)
(***************************************************************************)
C21_ChunksWithinChunkSize ==
  (chk # <<>> /\ chk.pc = "returned") =>
    \A k \in 1..Len(chk.chunks) :
      \/ chk.chunks[k].token_count <= chunk_size
      \/ /\ Len(chk.chunks[k].text) = 1
         /\ CountTokens(chk.text, chk.chunks[k].text) > chunk_size

\* the same with the room the prepended overlap takes
C21_ChunksWithinChunkSizePlusOverlap ==
  (chk # <<>> /\ chk.pc = "returned") =>
    \A k \in 1..Len(chk.chunks) :
      \/ chk.chunks[k].token_count <= chunk_size + overlap
      \/ \E n \in 1..Len(chk.chunks[k].text) :
           CountTokens(chk.text, <<chk.chunks[k].text[n]>>) > chunk_size

(***************************************************************************)
(* C28.  chunk_text never splits or drops a sentence: the chunks taken in  *)
(* chunk_id order, each without the overlap put in front of it, are the    *)
(* sentences of the input in their order, each exactly once; and the       *)
(* chunk_ids are 0, 1, 2, ... without gaps.                                *)
(***************************************************************************)
RECURSIVE WithoutOverlap(_)
WithoutOverlap(chunks) ==
  IF chunks = <<>> THEN <<>>
  ELSE SubSeq(chunks[1].text, chunks[1].over + 1, Len(chunks[1].text))
       \o WithoutOverlap(Tail(chunks))

C28_SentencesKeptInOrder ==
  (chk # <<>> /\ chk.pc = "returned") =>
    /\ WithoutOverlap(chk.chunks) = AllSentences(chk.text, 1)
    /\ \A k \in 1..Len(chk.chunks) : chk.chunks[k].chunk_id = k - 1

\* three chunks or more were returned, one of them with an overlap in front
C28_Witness ==
  /\ chk # <<>>
  /\ chk.pc = "returned"
  /\ Len(chk.chunks) >= 3
  /\ \E k \in 1..Len(chk.chunks) : chk.chunks[k].over > 0

(***************************************************************************)
(* C30.  If the static fetch of a URL returned non-empty content,          *)
(* web_crawler returns a ScrapeResult and never the fetch-failure message, *)
(* also when the content has a JavaScript-framework marker and the         *)
(* headless-browser fallback fails; and the headless browser is launched   *)
(* at most once per web_crawler call.                                      *)
(***************************************************************************)
C30_StaticContentIsNotLost ==
  crawl # <<>> =>
    /\ crawl.launches <= 1
    /\ (crawl.pc \in {"returned", "raised"} /\ crawl.static \notin {"none", ""}) =>
          crawl.out.kind = "ScrapeResult"

\* the same for pages without a marker
C30_PlainPageIsScraped ==
  crawl # <<>> =>
    (crawl.static = "html" =>
       /\ crawl.launches = 0
       /\ crawl.pc = "returned" => crawl.out.kind = "ScrapeResult")

====
